---- MODULE Spec2Model ----
(***************************************************************************)
(* A model of the light_swap_psp program (programs/light_swap_psp/src/     *)
(* lib.rs): a constant-product pool whose reserves and fees are encrypted  *)
(* 128-bit unsigned integers held by an arithmetic oracle, and whose state *)
(* lives in a compressed account that is replaced under a validity proof.  *)
(*                                                                         *)
(* An encrypted handle is modelled by the plaintext it stands for, in the  *)
(* unsigned type's arithmetic (modulo 2^Width; the program's width is 128, *)
(* the model's is Width).  Every oracle call can fail; `fault` is the      *)
(* number of the first oracle call of the instruction that fails (0: none).*)
(***************************************************************************)
EXTENDS Integers, Sequences, FiniteSets, TLC

VARIABLES
    pools,      \* committed compressed accounts: address -> SwapPool
    version,    \* address -> number of commits to that address (0: none)
    clock,      \* Clock::get()?.unix_timestamp of the next instruction
    snap,       \* the pool a client last read, with the version its proof is for
    last        \* the instruction processed last, its inputs and its outcome

vars == <<pools, version, clock, snap, last>>

----------------------------------------------------------------------------
(* Bounds of the model *)

Width == 2
MaxClock == 3

MaxRepeat == 3

Modulus == 2 ^ Width
EValues == 0 .. (Modulus - 1)

LiquidityInputs == {0, 1, 2}
SwapInputs == {0, 1}
FeeInputs == {0, 1}
MintPairs == {<<1, 2>>, <<2, 1>>}
AddressTrees == {1, 2}
Identities == {1, 2}

\* The initialize_pool instructions sent: two mint pairs, two address trees,
\* two authorities and two fee rates, and one address asked for twice.
InitInputs ==
    { [authority |-> 1, mints |-> <<1, 2>>, tree |-> 1, fee_bps |-> 30],
      [authority |-> 2, mints |-> <<1, 2>>, tree |-> 1, fee_bps |-> 100],
      [authority |-> 2, mints |-> <<1, 2>>, tree |-> 2, fee_bps |-> 100],
      [authority |-> 1, mints |-> <<2, 1>>, tree |-> 1, fee_bps |-> 100],
      [authority |-> 2, mints |-> <<2, 1>>, tree |-> 2, fee_bps |-> 30] }
\* The initialize_pool instruction sent when one of its oracle calls fails; its
\* authority is also the sender of every swap on forged pool data or with a
\* failing oracle call (swap_exact_in never looks at who sent it).
DisturbedInit == [authority |-> 1, mints |-> <<1, 2>>, tree |-> 1, fee_bps |-> 30]
Forgeries == {"none", "paused", "pool_authority"}

----------------------------------------------------------------------------
(* The arithmetic oracle (inco_lightning::cpi), on plaintexts *)

new_euint128(ciphertext) == ciphertext % Modulus
as_euint128(value) == value % Modulus
e_add(a, b) == (a + b) % Modulus
e_sub(a, b) == (a - b) % Modulus
e_mul(a, b) == (a * b) % Modulus
e_ge(a, b) == a >= b
e_select(cond, if_true, if_false) == IF cond THEN if_true ELSE if_false

\* The oracle calls of compute_swap_updates, in the order the code makes them.
SwapOracleCalls ==
    << "new_amount_in", "new_amount_out", "new_fee_amount", "zero",
       "has_liquidity", "select_in_1", "select_out_1", "select_fee_1",
       "temp_reserve_in", "temp_reserve_out", "old_k", "new_k", "k_ok",
       "select_in_2", "select_out_2", "select_fee_2",
       "new_reserve_in", "new_reserve_out", "new_protocol_fee" >>

\* The oracle calls of add_liquidity and of remove_liquidity.
LiquidityOracleCalls == << "new_amount_a", "new_amount_b", "reserve_a", "reserve_b" >>

\* The oracle calls of initialize_pool.
InitOracleCalls == << "reserve_a", "reserve_b", "protocol_fee_a", "protocol_fee_b" >>

----------------------------------------------------------------------------
(* compute_swap_updates *)

\* compute_swap_updates without the second selection of the fee.
compute_swap_updates_fee_not_regated(reserve_in, reserve_out, protocol_fee_in, amount_in_ciphertext, amount_out_ciphertext, fee_amount_ciphertext, fault) ==
    LET amount_in_0 == new_euint128(amount_in_ciphertext)
        amount_out_0 == new_euint128(amount_out_ciphertext)
        fee_amount_0 == new_euint128(fee_amount_ciphertext)
        zero == as_euint128(0)
        has_liquidity == e_ge(reserve_out, amount_out_0)
        amount_in_1 == e_select(has_liquidity, amount_in_0, zero)
        amount_out_1 == e_select(has_liquidity, amount_out_0, zero)
        fee_amount_1 == e_select(has_liquidity, fee_amount_0, zero)
        temp_reserve_in == e_add(reserve_in, amount_in_1)
        temp_reserve_out == e_sub(reserve_out, amount_out_1)
        old_k == e_mul(reserve_in, reserve_out)
        new_k == e_mul(temp_reserve_in, temp_reserve_out)
        k_ok == e_ge(new_k, old_k)
        amount_in_2 == e_select(k_ok, amount_in_1, zero)
        amount_out_2 == e_select(k_ok, amount_out_1, zero)
    IN  IF fault \in 1 .. Len(SwapOracleCalls)
        THEN [ok |-> FALSE, new_reserve_in |-> reserve_in,
              new_reserve_out |-> reserve_out, new_protocol_fee |-> protocol_fee_in,
              subtrahends |-> << >>]
        ELSE [ok |-> TRUE,
              new_reserve_in |-> e_add(reserve_in, amount_in_2),
              new_reserve_out |-> e_sub(reserve_out, amount_out_2),
              new_protocol_fee |-> e_add(protocol_fee_in, fee_amount_1),
              subtrahends |-> << amount_out_1, amount_out_2 >>]

\* compute_swap_updates without the second selection of amount_out.
compute_swap_updates_out_not_regated(reserve_in, reserve_out, protocol_fee_in, amount_in_ciphertext, amount_out_ciphertext, fee_amount_ciphertext, fault) ==
    LET amount_in_0 == new_euint128(amount_in_ciphertext)
        amount_out_0 == new_euint128(amount_out_ciphertext)
        fee_amount_0 == new_euint128(fee_amount_ciphertext)
        zero == as_euint128(0)
        has_liquidity == e_ge(reserve_out, amount_out_0)
        amount_in_1 == e_select(has_liquidity, amount_in_0, zero)
        amount_out_1 == e_select(has_liquidity, amount_out_0, zero)
        fee_amount_1 == e_select(has_liquidity, fee_amount_0, zero)
        temp_reserve_in == e_add(reserve_in, amount_in_1)
        temp_reserve_out == e_sub(reserve_out, amount_out_1)
        old_k == e_mul(reserve_in, reserve_out)
        new_k == e_mul(temp_reserve_in, temp_reserve_out)
        k_ok == e_ge(new_k, old_k)
        amount_in_2 == e_select(k_ok, amount_in_1, zero)
        amount_out_2 == amount_out_1
        fee_amount_2 == e_select(k_ok, fee_amount_1, zero)
    IN  IF fault \in 1 .. Len(SwapOracleCalls)
        THEN [ok |-> FALSE, new_reserve_in |-> reserve_in,
              new_reserve_out |-> reserve_out, new_protocol_fee |-> protocol_fee_in,
              subtrahends |-> << >>]
        ELSE [ok |-> TRUE,
              new_reserve_in |-> e_add(reserve_in, amount_in_2),
              new_reserve_out |-> e_sub(reserve_out, amount_out_2),
              new_protocol_fee |-> e_add(protocol_fee_in, fee_amount_2),
              subtrahends |-> << amount_out_1, amount_out_2 >>]

\* compute_swap_updates without the first selection of amount_out.
compute_swap_updates_out_not_liquidity_gated(reserve_in, reserve_out, protocol_fee_in, amount_in_ciphertext, amount_out_ciphertext, fee_amount_ciphertext, fault) ==
    LET amount_in_0 == new_euint128(amount_in_ciphertext)
        amount_out_0 == new_euint128(amount_out_ciphertext)
        fee_amount_0 == new_euint128(fee_amount_ciphertext)
        zero == as_euint128(0)
        has_liquidity == e_ge(reserve_out, amount_out_0)
        amount_in_1 == e_select(has_liquidity, amount_in_0, zero)
        amount_out_1 == amount_out_0
        fee_amount_1 == e_select(has_liquidity, fee_amount_0, zero)
        temp_reserve_in == e_add(reserve_in, amount_in_1)
        temp_reserve_out == e_sub(reserve_out, amount_out_1)
        old_k == e_mul(reserve_in, reserve_out)
        new_k == e_mul(temp_reserve_in, temp_reserve_out)
        k_ok == e_ge(new_k, old_k)
        amount_in_2 == e_select(k_ok, amount_in_1, zero)
        amount_out_2 == e_select(k_ok, amount_out_1, zero)
        fee_amount_2 == e_select(k_ok, fee_amount_1, zero)
    IN  IF fault \in 1 .. Len(SwapOracleCalls)
        THEN [ok |-> FALSE, new_reserve_in |-> reserve_in,
              new_reserve_out |-> reserve_out, new_protocol_fee |-> protocol_fee_in,
              subtrahends |-> << >>]
        ELSE [ok |-> TRUE,
              new_reserve_in |-> e_add(reserve_in, amount_in_2),
              new_reserve_out |-> e_sub(reserve_out, amount_out_2),
              new_protocol_fee |-> e_add(protocol_fee_in, fee_amount_2),
              subtrahends |-> << amount_out_1, amount_out_2 >>]

compute_swap_updates(reserve_in, reserve_out, protocol_fee_in, amount_in_ciphertext, amount_out_ciphertext, fee_amount_ciphertext, fault) ==
    LET amount_in_0 == new_euint128(amount_in_ciphertext)
        amount_out_0 == new_euint128(amount_out_ciphertext)
        fee_amount_0 == new_euint128(fee_amount_ciphertext)
        zero == as_euint128(0)
        has_liquidity == e_ge(reserve_out, amount_out_0)
        amount_in_1 == e_select(has_liquidity, amount_in_0, zero)
        amount_out_1 == e_select(has_liquidity, amount_out_0, zero)
        fee_amount_1 == e_select(has_liquidity, fee_amount_0, zero)
        temp_reserve_in == e_add(reserve_in, amount_in_1)
        temp_reserve_out == e_sub(reserve_out, amount_out_1)
        old_k == e_mul(reserve_in, reserve_out)
        new_k == e_mul(temp_reserve_in, temp_reserve_out)
        k_ok == e_ge(new_k, old_k)
        amount_in_2 == e_select(k_ok, amount_in_1, zero)
        amount_out_2 == e_select(k_ok, amount_out_1, zero)
        fee_amount_2 == e_select(k_ok, fee_amount_1, zero)
    IN  IF fault \in 1 .. Len(SwapOracleCalls)
        THEN [ok |-> FALSE, new_reserve_in |-> reserve_in,
              new_reserve_out |-> reserve_out, new_protocol_fee |-> protocol_fee_in,
              subtrahends |-> << >>]
        ELSE [ok |-> TRUE,
              new_reserve_in |-> e_add(reserve_in, amount_in_2),
              new_reserve_out |-> e_sub(reserve_out, amount_out_2),
              new_protocol_fee |-> e_add(protocol_fee_in, fee_amount_2),
              subtrahends |-> << amount_out_1, amount_out_2 >>]

----------------------------------------------------------------------------
(* Identities and addresses *)

\* Pubkey::find_program_address(&[POOL_AUTH_SEED, mint_a, mint_b], &crate::ID)
FindPoolAuthority(mint_a, mint_b) == << "pool_authority", mint_a, mint_b >>

\* derive_address(&[b"pool", mint_a, mint_b], &tree_pubkey, &crate::ID)
derive_address(mint_a, mint_b, tree_pubkey) == << "pool", mint_a, mint_b, tree_pubkey >>

Addresses == { derive_address(m[1], m[2], t) : m \in MintPairs, t \in AddressTrees }

\* #[derive(Default)] SwapPool
SwapPoolDefault ==
    [ authority |-> 0, pool_authority |-> << >>, mint_a |-> 0, mint_b |-> 0,
      reserve_a |-> 0, reserve_b |-> 0, protocol_fee_a |-> 0, protocol_fee_b |-> 0,
      fee_bps |-> 0, is_paused |-> FALSE, last_update_ts |-> 0 ]

\* pool_data is an argument of the instruction: the client can send bytes that
\* differ from the committed account.
Forge(pool_data, forgery) ==
    CASE forgery = "paused" -> [pool_data EXCEPT !.is_paused = TRUE]
      [] forgery = "pool_authority" ->
            [pool_data EXCEPT !.pool_authority =
                                  FindPoolAuthority(pool_data.mint_b, pool_data.mint_a)]
      [] OTHER -> pool_data

----------------------------------------------------------------------------
(* The instruction handlers, up to the commit: the error they return, or   *)
(* "Ok", and the local pool_account as it stands when they return.         *)

\* The handlers without the pause check.
PausedCheckSkipped(pool_account) == "Ok"

\* require!(!pool_account.is_paused, ErrorCode::PoolPaused)
PausedCheck(pool_account) ==
    IF pool_account.is_paused THEN "PoolPaused" ELSE "Ok"

\* The handlers without the authority check.
AuthorityCheckSkipped(pool_account, authority) == "Ok"

\* require_keys_eq!(pool_account.authority, ctx.accounts.authority.key(), Unauthorized)
AuthorityCheck(pool_account, authority) ==
    IF pool_account.authority # authority THEN "Unauthorized" ELSE "Ok"

\* require_keys_eq!(pool_account.pool_authority, expected_pool_authority)
PoolAuthorityCheck(pool_account) ==
    IF pool_account.pool_authority
           # FindPoolAuthority(pool_account.mint_a, pool_account.mint_b)
    THEN "IntegrityMismatch" ELSE "Ok"

\* initialize_pool deriving the pool authority from the mints in the other order.
InitFieldsSeedsSwapped(pool_account, authority, mint_a, mint_b, fee_bps, now) ==
    [pool_account EXCEPT !.authority = authority,
                         !.pool_authority = FindPoolAuthority(mint_b, mint_a),
                         !.mint_a = mint_a,
                         !.mint_b = mint_b,
                         !.fee_bps = fee_bps,
                         !.is_paused = FALSE,
                         !.last_update_ts = now]

\* initialize_pool creating the pool paused.
InitFieldsPaused(pool_account, authority, mint_a, mint_b, fee_bps, now) ==
    [pool_account EXCEPT !.authority = authority,
                         !.pool_authority = FindPoolAuthority(mint_a, mint_b),
                         !.mint_a = mint_a,
                         !.mint_b = mint_b,
                         !.fee_bps = fee_bps,
                         !.is_paused = TRUE,
                         !.last_update_ts = now]

\* The plaintext fields initialize_pool sets after the four encrypted zeros.
InitFields(pool_account, authority, mint_a, mint_b, fee_bps, now) ==
    [pool_account EXCEPT !.authority = authority,
                         !.pool_authority = FindPoolAuthority(mint_a, mint_b),
                         !.mint_a = mint_a,
                         !.mint_b = mint_b,
                         !.fee_bps = fee_bps,
                         !.is_paused = FALSE,
                         !.last_update_ts = now]

initialize_pool(authority, mint_a, mint_b, fee_bps, fault, now) ==
    LET a0 == SwapPoolDefault
        a1 == [a0 EXCEPT !.reserve_a = as_euint128(0)]
        a2 == [a1 EXCEPT !.reserve_b = as_euint128(0)]
        a3 == [a2 EXCEPT !.protocol_fee_a = as_euint128(0)]
        a4 == [a3 EXCEPT !.protocol_fee_b = as_euint128(0)]
    IN  CASE fault = 1 -> [result |-> "ArithmeticFault", account |-> a0]
          [] fault = 2 -> [result |-> "ArithmeticFault", account |-> a1]
          [] fault = 3 -> [result |-> "ArithmeticFault", account |-> a2]
          [] fault = 4 -> [result |-> "ArithmeticFault", account |-> a3]
          [] OTHER ->
                [result |-> "Ok",
                 account |-> InitFields(a4, authority, mint_a, mint_b, fee_bps, now)]

\* add_liquidity adding amount_a to both reserves.
add_liquidity_amount_a_twice(pool_data, authority, amount_a_ciphertext, amount_b_ciphertext, fault, now) ==
    LET amount_a == new_euint128(amount_a_ciphertext)
        amount_b == new_euint128(amount_b_ciphertext)
        a1 == [pool_data EXCEPT !.reserve_a = e_add(pool_data.reserve_a, amount_a)]
        a2 == [a1 EXCEPT !.reserve_b = e_add(a1.reserve_b, amount_a)]
    IN  CASE PausedCheck(pool_data) # "Ok" ->
                [result |-> PausedCheck(pool_data), account |-> pool_data]
          [] AuthorityCheck(pool_data, authority) # "Ok" ->
                [result |-> AuthorityCheck(pool_data, authority), account |-> pool_data]
          [] fault \in 1 .. 3 -> [result |-> "ArithmeticFault", account |-> pool_data]
          [] fault = 4 -> [result |-> "ArithmeticFault", account |-> a1]
          [] OTHER -> [result |-> "Ok", account |-> [a2 EXCEPT !.last_update_ts = now]]

\* add_liquidity dropping the error of its last oracle call.
add_liquidity_last_error_dropped(pool_data, authority, amount_a_ciphertext, amount_b_ciphertext, fault, now) ==
    LET amount_a == new_euint128(amount_a_ciphertext)
        amount_b == new_euint128(amount_b_ciphertext)
        a1 == [pool_data EXCEPT !.reserve_a = e_add(pool_data.reserve_a, amount_a)]
        a2 == [a1 EXCEPT !.reserve_b = e_add(a1.reserve_b, amount_b)]
    IN  CASE PausedCheck(pool_data) # "Ok" ->
                [result |-> PausedCheck(pool_data), account |-> pool_data]
          [] AuthorityCheck(pool_data, authority) # "Ok" ->
                [result |-> AuthorityCheck(pool_data, authority), account |-> pool_data]
          [] fault \in 1 .. 3 -> [result |-> "ArithmeticFault", account |-> pool_data]
          [] fault = 4 -> [result |-> "Ok", account |-> [a1 EXCEPT !.last_update_ts = now]]
          [] OTHER -> [result |-> "Ok", account |-> [a2 EXCEPT !.last_update_ts = now]]

add_liquidity(pool_data, authority, amount_a_ciphertext, amount_b_ciphertext, fault, now) ==
    LET amount_a == new_euint128(amount_a_ciphertext)
        amount_b == new_euint128(amount_b_ciphertext)
        a1 == [pool_data EXCEPT !.reserve_a = e_add(pool_data.reserve_a, amount_a)]
        a2 == [a1 EXCEPT !.reserve_b = e_add(a1.reserve_b, amount_b)]
    IN  CASE PausedCheck(pool_data) # "Ok" ->
                [result |-> PausedCheck(pool_data), account |-> pool_data]
          [] AuthorityCheck(pool_data, authority) # "Ok" ->
                [result |-> AuthorityCheck(pool_data, authority), account |-> pool_data]
          [] fault \in 1 .. 3 -> [result |-> "ArithmeticFault", account |-> pool_data]
          [] fault = 4 -> [result |-> "ArithmeticFault", account |-> a1]
          [] OTHER -> [result |-> "Ok", account |-> [a2 EXCEPT !.last_update_ts = now]]

\* remove_liquidity with subtractions that stop at zero.
remove_liquidity_saturating(pool_data, authority, amount_a_ciphertext, amount_b_ciphertext, fault, now) ==
    LET amount_a == new_euint128(amount_a_ciphertext)
        amount_b == new_euint128(amount_b_ciphertext)
        a1 == [pool_data EXCEPT !.reserve_a =
                  IF amount_a > pool_data.reserve_a THEN 0
                  ELSE e_sub(pool_data.reserve_a, amount_a)]
        a2 == [a1 EXCEPT !.reserve_b =
                  IF amount_b > a1.reserve_b THEN 0 ELSE e_sub(a1.reserve_b, amount_b)]
    IN  CASE PausedCheck(pool_data) # "Ok" ->
                [result |-> PausedCheck(pool_data), account |-> pool_data]
          [] AuthorityCheck(pool_data, authority) # "Ok" ->
                [result |-> AuthorityCheck(pool_data, authority), account |-> pool_data]
          [] fault \in 1 .. 3 -> [result |-> "ArithmeticFault", account |-> pool_data]
          [] fault = 4 -> [result |-> "ArithmeticFault", account |-> a1]
          [] OTHER -> [result |-> "Ok", account |-> [a2 EXCEPT !.last_update_ts = now]]

remove_liquidity(pool_data, authority, amount_a_ciphertext, amount_b_ciphertext, fault, now) ==
    LET amount_a == new_euint128(amount_a_ciphertext)
        amount_b == new_euint128(amount_b_ciphertext)
        a1 == [pool_data EXCEPT !.reserve_a = e_sub(pool_data.reserve_a, amount_a)]
        a2 == [a1 EXCEPT !.reserve_b = e_sub(a1.reserve_b, amount_b)]
    IN  CASE PausedCheck(pool_data) # "Ok" ->
                [result |-> PausedCheck(pool_data), account |-> pool_data]
          [] AuthorityCheck(pool_data, authority) # "Ok" ->
                [result |-> AuthorityCheck(pool_data, authority), account |-> pool_data]
          [] fault \in 1 .. 3 -> [result |-> "ArithmeticFault", account |-> pool_data]
          [] fault = 4 -> [result |-> "ArithmeticFault", account |-> a1]
          [] OTHER -> [result |-> "Ok", account |-> [a2 EXCEPT !.last_update_ts = now]]

\* The write-back onto a fresh SwapPool instead of the account read.
WriteBackOntoDefault(pool_account, a_to_b, u) ==
    IF a_to_b
    THEN [SwapPoolDefault EXCEPT !.reserve_a = u.new_reserve_in,
                                 !.reserve_b = u.new_reserve_out,
                                 !.protocol_fee_a = u.new_protocol_fee]
    ELSE [SwapPoolDefault EXCEPT !.reserve_b = u.new_reserve_in,
                                 !.reserve_a = u.new_reserve_out,
                                 !.protocol_fee_b = u.new_protocol_fee]

\* The write-back putting the fee of either direction in protocol_fee_a.
WriteBackFeeAlwaysA(pool_account, a_to_b, u) ==
    IF a_to_b
    THEN [pool_account EXCEPT !.reserve_a = u.new_reserve_in,
                              !.reserve_b = u.new_reserve_out,
                              !.protocol_fee_a = u.new_protocol_fee]
    ELSE [pool_account EXCEPT !.reserve_b = u.new_reserve_in,
                              !.reserve_a = u.new_reserve_out,
                              !.protocol_fee_a = u.new_protocol_fee]

\* "Update pool state": the results written back by direction.
WriteBack(pool_account, a_to_b, u) ==
    IF a_to_b
    THEN [pool_account EXCEPT !.reserve_a = u.new_reserve_in,
                              !.reserve_b = u.new_reserve_out,
                              !.protocol_fee_a = u.new_protocol_fee]
    ELSE [pool_account EXCEPT !.reserve_b = u.new_reserve_in,
                              !.reserve_a = u.new_reserve_out,
                              !.protocol_fee_b = u.new_protocol_fee]

\* swap_exact_in without the stamp of last_update_ts.
swap_exact_in_unstamped(pool_data, amount_in_ciphertext, amount_out_ciphertext, fee_amount_ciphertext, a_to_b, fault, now) ==
    LET reserve_in == IF a_to_b THEN pool_data.reserve_a ELSE pool_data.reserve_b
        reserve_out == IF a_to_b THEN pool_data.reserve_b ELSE pool_data.reserve_a
        protocol_fee_in ==
            IF a_to_b THEN pool_data.protocol_fee_a ELSE pool_data.protocol_fee_b
        u == compute_swap_updates(reserve_in, reserve_out, protocol_fee_in,
                                  amount_in_ciphertext, amount_out_ciphertext,
                                  fee_amount_ciphertext, fault)
        updated == WriteBack(pool_data, a_to_b, u)
    IN  CASE PausedCheck(pool_data) # "Ok" ->
                [result |-> PausedCheck(pool_data), account |-> pool_data]
          [] PoolAuthorityCheck(pool_data) # "Ok" ->
                [result |-> PoolAuthorityCheck(pool_data), account |-> pool_data]
          [] ~u.ok -> [result |-> "ArithmeticFault", account |-> pool_data]
          [] OTHER -> [result |-> "Ok", account |-> updated]

swap_exact_in(pool_data, amount_in_ciphertext, amount_out_ciphertext, fee_amount_ciphertext, a_to_b, fault, now) ==
    LET reserve_in == IF a_to_b THEN pool_data.reserve_a ELSE pool_data.reserve_b
        reserve_out == IF a_to_b THEN pool_data.reserve_b ELSE pool_data.reserve_a
        protocol_fee_in ==
            IF a_to_b THEN pool_data.protocol_fee_a ELSE pool_data.protocol_fee_b
        u == compute_swap_updates(reserve_in, reserve_out, protocol_fee_in,
                                  amount_in_ciphertext, amount_out_ciphertext,
                                  fee_amount_ciphertext, fault)
        updated == WriteBack(pool_data, a_to_b, u)
    IN  CASE PausedCheck(pool_data) # "Ok" ->
                [result |-> PausedCheck(pool_data), account |-> pool_data]
          [] PoolAuthorityCheck(pool_data) # "Ok" ->
                [result |-> PoolAuthorityCheck(pool_data), account |-> pool_data]
          [] ~u.ok -> [result |-> "ArithmeticFault", account |-> pool_data]
          [] OTHER -> [result |-> "Ok", account |-> [updated EXCEPT !.last_update_ts = now]]

----------------------------------------------------------------------------
(* The cross-program calls swap_exact_in issues, in the order it issues them *)

\* compute_swap_updates returning early when the output reserve is short.
compute_swap_updates_calls_branching(reserve_in, reserve_out, protocol_fee_in, amount_in_ciphertext, amount_out_ciphertext, fee_amount_ciphertext, fault) ==
    LET issued == IF reserve_out >= new_euint128(amount_out_ciphertext)
                  THEN Len(SwapOracleCalls) ELSE 5
    IN  SubSeq(SwapOracleCalls, 1, IF fault \in 1 .. issued THEN fault ELSE issued)

\* compute_swap_updates is straight-line code: every oracle call is made, in
\* order, up to and including the first one that fails.
compute_swap_updates_calls(reserve_in, reserve_out, protocol_fee_in, amount_in_ciphertext, amount_out_ciphertext, fee_amount_ciphertext, fault) ==
    SubSeq(SwapOracleCalls, 1,
           IF fault \in 1 .. Len(SwapOracleCalls) THEN fault ELSE Len(SwapOracleCalls))

\* swap_exact_in moving the tokens before it commits.
swap_exact_in_calls_with_transfers(pool_data, amount_in_ciphertext, amount_out_ciphertext, fee_amount_ciphertext, a_to_b, fault) ==
    LET reserve_in == IF a_to_b THEN pool_data.reserve_a ELSE pool_data.reserve_b
        reserve_out == IF a_to_b THEN pool_data.reserve_b ELSE pool_data.reserve_a
        protocol_fee_in ==
            IF a_to_b THEN pool_data.protocol_fee_a ELSE pool_data.protocol_fee_b
        calls == compute_swap_updates_calls(reserve_in, reserve_out, protocol_fee_in,
                                            amount_in_ciphertext, amount_out_ciphertext,
                                            fee_amount_ciphertext, fault)
    IN  CASE PausedCheck(pool_data) # "Ok" -> << >>
          [] PoolAuthorityCheck(pool_data) # "Ok" -> << >>
          [] fault \in 1 .. Len(SwapOracleCalls) -> calls
          [] OTHER -> calls \o << "transfer_in", "transfer_out", "light_system_invoke" >>

swap_exact_in_calls(pool_data, amount_in_ciphertext, amount_out_ciphertext, fee_amount_ciphertext, a_to_b, fault) ==
    LET reserve_in == IF a_to_b THEN pool_data.reserve_a ELSE pool_data.reserve_b
        reserve_out == IF a_to_b THEN pool_data.reserve_b ELSE pool_data.reserve_a
        protocol_fee_in ==
            IF a_to_b THEN pool_data.protocol_fee_a ELSE pool_data.protocol_fee_b
        calls == compute_swap_updates_calls(reserve_in, reserve_out, protocol_fee_in,
                                            amount_in_ciphertext, amount_out_ciphertext,
                                            fee_amount_ciphertext, fault)
    IN  CASE PausedCheck(pool_data) # "Ok" -> << >>
          [] PoolAuthorityCheck(pool_data) # "Ok" -> << >>
          [] fault \in 1 .. Len(SwapOracleCalls) -> calls
          [] OTHER -> calls \o << "light_system_invoke" >>

----------------------------------------------------------------------------
(* The commit of the compressed account (light_sdk) *)

\* The validity proof of a mutation is for one committed version of the account:
\* it verifies when the account sent is the latest committed one.
ProofValid(address, pool_data, ver) ==
    /\ address \in DOMAIN pools
    /\ version[address] = ver
    /\ pools[address] = pool_data

\* initialize_pool without .with_new_addresses: no address is claimed.
NewAddressUnclaimed(address) == TRUE

\* The proof of a new address verifies when the address is not yet committed.
NewAddressValid(address) == address \notin DOMAIN pools

\* The result of the commit ignored.
OutcomeIgnoringCommit(handler_result, proof_ok, proof_error) == handler_result

\* `?` on the handler's steps, then LightSystemProgramCpi::...invoke(..)?
Outcome(handler_result, proof_ok, proof_error) ==
    IF handler_result # "Ok" THEN handler_result
    ELSE IF proof_ok THEN "Ok" ELSE proof_error

GuardErrors == {"PoolPaused", "Unauthorized", "IntegrityMismatch"}

NoInstruction ==
    [ op |-> "none", address |-> << >>, caller |-> 0, a_to_b |-> FALSE,
      amount_1 |-> 0, amount_2 |-> 0, fee_amount |-> 0, fee_bps |-> 0,
      forgery |-> "none", fault |-> 0, result |-> "none", ver |-> 0, cur |-> 0,
      existed |-> FALSE, pre |-> SwapPoolDefault ]

\* What is recorded of a processed instruction: the amounts and the direction
\* of one that committed, the failing oracle call of one that reached the oracle.
LogEntry(op, address, caller, a_to_b, amount_1, amount_2, fee_amount, fee_bps, forgery, fault, result, ver) ==
    [ op |-> op, address |-> address, caller |-> caller,
      a_to_b |-> IF result = "Ok" THEN a_to_b ELSE FALSE,
      amount_1 |-> IF result = "Ok" THEN amount_1 ELSE 0,
      amount_2 |-> IF result = "Ok" THEN amount_2 ELSE 0,
      fee_amount |-> IF result = "Ok" THEN fee_amount ELSE 0,
      fee_bps |-> IF result = "Ok" THEN fee_bps ELSE 0,
      forgery |-> forgery,
      fault |-> IF result \in GuardErrors THEN 0 ELSE fault,
      result |-> result, ver |-> ver, cur |-> version[address],
      existed |-> address \in DOMAIN pools,
      pre |-> IF address \in DOMAIN pools THEN pools[address] ELSE SwapPoolDefault ]

----------------------------------------------------------------------------
(* The state machine *)

NoSnapshot == [ taken |-> FALSE, addr |-> << >>, data |-> SwapPoolDefault, ver |-> 0 ]

\* An instruction runs undisturbed, or on forged pool_data, or with one failing
\* oracle call among `calls`.
Undisturbed == [forgery |-> "none", fault |-> 0]

Disturbances(calls) ==
    { [forgery |-> f, fault |-> 0] : f \in Forgeries \ {"none"} }
        \cup { [forgery |-> "none", fault |-> k] : k \in 1 .. Len(calls) }

Init ==
    /\ pools = [a \in {} |-> SwapPoolDefault]
    /\ version = [a \in Addresses |-> 0]
    /\ clock = 1
    /\ snap = NoSnapshot
    /\ last = NoInstruction

\* A client reads the committed pool at `address` together with its proof.
Prepare(address) ==
    /\ clock <= MaxClock
    /\ last = NoInstruction
    /\ address \in DOMAIN pools
    /\ snap' = [ taken |-> TRUE, addr |-> address, data |-> pools[address],
                 ver |-> version[address] ]
    /\ UNCHANGED <<pools, version, clock, last>>

\* The outcome of the processed instruction has been returned to its sender.
Return ==
    /\ clock <= MaxClock
    /\ last # NoInstruction
    /\ last' = NoInstruction
    /\ UNCHANGED <<pools, version, clock, snap>>

\* The effect of a mutating instruction whose handler returned r.
CommitMutation(r, logged) ==
    /\ pools' = IF logged.result = "Ok"
                THEN [pools EXCEPT ![snap.addr] = r.account] ELSE pools
    /\ version' = IF logged.result = "Ok"
                  THEN [version EXCEPT ![snap.addr] = @ + 1] ELSE version
    /\ last' = logged
    /\ clock' = clock + 1
    /\ UNCHANGED snap

InitializePool(authority, mint_a, mint_b, tree_pubkey, fee_bps, fault) ==
    /\ clock <= MaxClock
    /\ last = NoInstruction
    /\ LET address == derive_address(mint_a, mint_b, tree_pubkey)
           r == initialize_pool(authority, mint_a, mint_b, fee_bps, fault, clock)
           result == Outcome(r.result, NewAddressValid(address), "AlreadyExists")
       IN  /\ pools' = IF result = "Ok"
                       THEN [a \in DOMAIN pools \cup {address} |->
                                IF a = address THEN r.account ELSE pools[a]]
                       ELSE pools
           /\ version' = IF result = "Ok"
                         THEN [version EXCEPT ![address] = @ + 1] ELSE version
           /\ last' = LogEntry("initialize_pool", address, authority, FALSE, 0, 0, 0,
                               fee_bps, "none", fault, result, 0)
    /\ clock' = clock + 1
    /\ UNCHANGED snap

AddLiquidity(authority, amount_a, amount_b, forgery, fault) ==
    /\ clock <= MaxClock
    /\ last = NoInstruction
    /\ snap.taken
    /\ LET pool_data == Forge(snap.data, forgery)
           r == add_liquidity(pool_data, authority, amount_a, amount_b, fault, clock)
           result == Outcome(r.result, ProofValid(snap.addr, pool_data, snap.ver),
                             "StaleProof")
       IN  CommitMutation(r, LogEntry("add_liquidity", snap.addr, authority, FALSE,
                                      amount_a, amount_b, 0, 0, forgery, fault,
                                      result, snap.ver))

RemoveLiquidity(authority, amount_a, amount_b, forgery, fault) ==
    /\ clock <= MaxClock
    /\ last = NoInstruction
    /\ snap.taken
    /\ LET pool_data == Forge(snap.data, forgery)
           r == remove_liquidity(pool_data, authority, amount_a, amount_b, fault, clock)
           result == Outcome(r.result, ProofValid(snap.addr, pool_data, snap.ver),
                             "StaleProof")
       IN  CommitMutation(r, LogEntry("remove_liquidity", snap.addr, authority, FALSE,
                                      amount_a, amount_b, 0, 0, forgery, fault,
                                      result, snap.ver))

SwapExactIn(fee_payer, amount_in, amount_out, fee_amount, a_to_b, forgery, fault) ==
    /\ clock <= MaxClock
    /\ last = NoInstruction
    /\ snap.taken
    /\ LET pool_data == Forge(snap.data, forgery)
           r == swap_exact_in(pool_data, amount_in, amount_out, fee_amount, a_to_b,
                              fault, clock)
           result == Outcome(r.result, ProofValid(snap.addr, pool_data, snap.ver),
                             "StaleProof")
       IN  CommitMutation(r, LogEntry("swap_exact_in", snap.addr, fee_payer, a_to_b,
                                      amount_in, amount_out, fee_amount, 0, forgery,
                                      fault, result, snap.ver))

\* The amounts of a disturbed instruction.
DisturbedAmount == 1

Next ==
    \/ \E address \in Addresses : Prepare(address)
    \/ Return
    \/ \E i \in InitInputs, fault \in 0 .. Len(InitOracleCalls) :
            /\ fault # 0 => i = DisturbedInit
            /\ InitializePool(i.authority, i.mints[1], i.mints[2], i.tree, i.fee_bps, fault)
    \/ \E authority \in Identities, a \in LiquidityInputs, b \in LiquidityInputs :
            AddLiquidity(authority, a, b, Undisturbed.forgery, Undisturbed.fault)
    \/ \E authority \in Identities, d \in Disturbances(LiquidityOracleCalls) :
            AddLiquidity(authority, DisturbedAmount, DisturbedAmount, d.forgery, d.fault)
    \/ \E authority \in Identities, a \in LiquidityInputs, b \in LiquidityInputs :
            RemoveLiquidity(authority, a, b, Undisturbed.forgery, Undisturbed.fault)
    \/ \E authority \in Identities, d \in Disturbances(LiquidityOracleCalls) :
            RemoveLiquidity(authority, DisturbedAmount, DisturbedAmount, d.forgery, d.fault)
    \/ \E fee_payer \in Identities, i \in SwapInputs, o \in SwapInputs,
          f \in FeeInputs, a_to_b \in BOOLEAN :
            SwapExactIn(fee_payer, i, o, f, a_to_b, Undisturbed.forgery, Undisturbed.fault)
    \/ \E a_to_b \in BOOLEAN, d \in Disturbances(SwapOracleCalls) :
            SwapExactIn(DisturbedInit.authority, DisturbedAmount, DisturbedAmount,
                        DisturbedAmount, a_to_b, d.forgery, d.fault)

Spec == Init /\ [][Next]_vars

----------------------------------------------------------------------------
(* What the properties speak of *)

Mutating == {"add_liquidity", "remove_liquidity", "swap_exact_in"}

\* The pool_data the processed instruction was given.
Seen == Forge(snap.data, last.forgery)

\* The committed pool the processed instruction was aimed at, as it is now.
Post == IF last.address \in DOMAIN pools THEN pools[last.address] ELSE SwapPoolDefault

\* The committed state at that address is what it was before the instruction.
Untouched ==
    /\ (last.address \in DOMAIN pools) = last.existed
    /\ Post = last.pre
    /\ version[last.address] = last.cur

CommittedSwap == last.op = "swap_exact_in" /\ last.result = "Ok"

PreIn == IF last.a_to_b THEN last.pre.reserve_a ELSE last.pre.reserve_b
PreOut == IF last.a_to_b THEN last.pre.reserve_b ELSE last.pre.reserve_a
PreFeeIn == IF last.a_to_b THEN last.pre.protocol_fee_a ELSE last.pre.protocol_fee_b
PreFeeOut == IF last.a_to_b THEN last.pre.protocol_fee_b ELSE last.pre.protocol_fee_a
PostIn == IF last.a_to_b THEN Post.reserve_a ELSE Post.reserve_b
PostOut == IF last.a_to_b THEN Post.reserve_b ELSE Post.reserve_a
PostFeeIn == IF last.a_to_b THEN Post.protocol_fee_a ELSE Post.protocol_fee_b
PostFeeOut == IF last.a_to_b THEN Post.protocol_fee_b ELSE Post.protocol_fee_a

----------------------------------------------------------------------------
(* C1 *)

\* C1: a committed swap on reserves (x, y) with amounts (dIn, dOut) leaves
\* reserveIn' = x + dIn and reserveOut' = y - dOut when y >= dOut and
\* x*y <= (x+dIn)*(y-dOut), and leaves the reserves as they were otherwise.
C1_TradeOrNothing ==
    CommittedSwap =>
        IF PreOut >= last.amount_2
           /\ PreIn * PreOut <= (PreIn + last.amount_1) * (PreOut - last.amount_2)
        THEN PostIn = PreIn + last.amount_1 /\ PostOut = PreOut - last.amount_2
        ELSE PostIn = PreIn /\ PostOut = PreOut

----------------------------------------------------------------------------
(* C2 *)

\* C2: the product reserveA * reserveB of the pool a swap commits is at least
\* the product of the pool version the swap read.
C2_ProductNonDecreasing ==
    CommittedSwap =>
        Post.reserve_a * Post.reserve_b >= last.pre.reserve_a * last.pre.reserve_b

----------------------------------------------------------------------------
(* C3 *)

\* The two gates of a swap, in the arithmetic of the encrypted type.
LiquidityGate == PreOut >= last.amount_2

KGate ==
    e_mul(e_add(PreIn, last.amount_1), e_sub(PreOut, last.amount_2))
        >= e_mul(PreIn, PreOut)

\* C3: a committed swap adds feeAmount to the protocol fee of the input side
\* exactly when both gates pass, which is exactly when it applies the reserve
\* delta of the same call; otherwise fee and reserves stay; the protocol fee
\* of the output side never changes.
C3_FeeFollowsTrade ==
    CommittedSwap =>
        /\ PostFeeOut = PreFeeOut
        /\ IF LiquidityGate /\ KGate
           THEN /\ PostFeeIn = e_add(PreFeeIn, last.fee_amount)
                /\ PostIn = e_add(PreIn, last.amount_1)
                /\ PostOut = e_sub(PreOut, last.amount_2)
           ELSE /\ PostFeeIn = PreFeeIn
                /\ PostIn = PreIn
                /\ PostOut = PreOut

\* A swap with a fee passed the liquidity gate, failed the k gate and committed.
C3_Witness ==
    /\ CommittedSwap
    /\ last.fee_amount > 0
    /\ LiquidityGate
    /\ ~KGate

----------------------------------------------------------------------------
(* C4 *)

\* C4: add_liquidity, remove_liquidity and swap_exact_in on a pool whose
\* is_paused is true fail with PoolPaused and leave the committed pool, with
\* its version, as it was.
C4_PausedRejected ==
    (last.op \in Mutating /\ Seen.is_paused) =>
        (last.result = "PoolPaused" /\ Untouched)

\* remove_liquidity was sent for a paused pool and was rejected.
C4_Witness ==
    /\ last.op = "remove_liquidity"
    /\ Seen.is_paused
    /\ last.result = "PoolPaused"

----------------------------------------------------------------------------
(* C5 *)

\* C5: on an unpaused pool add_liquidity and remove_liquidity by anyone but
\* the recorded authority fail with Unauthorized and change nothing, while
\* swap_exact_in never fails on the caller: with a current proof and no
\* oracle fault a swap of any caller commits.
C5_AuthorityGatesLiquidityOnly ==
    /\ (/\ last.op \in {"add_liquidity", "remove_liquidity"}
        /\ ~Seen.is_paused
        /\ last.caller # Seen.authority)
           => (last.result = "Unauthorized" /\ Untouched)
    /\ last.op = "swap_exact_in" => last.result # "Unauthorized"
    /\ (/\ last.op = "swap_exact_in"
        /\ last.forgery = "none"
        /\ last.fault = 0
        /\ last.ver = last.cur)
           => last.result = "Ok"

\* add_liquidity by someone else than the authority was rejected.
C5_Witness ==
    /\ last.op = "add_liquidity"
    /\ ~Seen.is_paused
    /\ last.caller # Seen.authority
    /\ last.result = "Unauthorized"

----------------------------------------------------------------------------
(* C6 *)

\* The pool initialize_pool creates: encrypted zeros, unpaused, the fee given.
Created ==
    Post = [ authority |-> last.caller,
             pool_authority |-> << "pool_authority", last.address[2], last.address[3] >>,
             mint_a |-> last.address[2], mint_b |-> last.address[3],
             reserve_a |-> 0, reserve_b |-> 0,
             protocol_fee_a |-> 0, protocol_fee_b |-> 0,
             fee_bps |-> last.fee_bps, is_paused |-> FALSE,
             last_update_ts |-> clock - 1 ]

\* A pool of the instruction's mint pair was committed before the instruction.
MintPairTaken ==
    \E a \in DOMAIN pools :
        /\ a # last.address \/ last.existed
        /\ pools[a].mint_a = last.address[2]
        /\ pools[a].mint_b = last.address[3]

\* C6 as stated: initialize for a mint pair without a committed pool creates
\* the zero pool; initialize for a mint pair whose pool is committed fails and
\* leaves the committed pools as they are.
C6_OnePoolPerMintPair ==
    last.op = "initialize_pool" =>
        IF MintPairTaken
        THEN last.result # "Ok" /\ Untouched
        ELSE last.fault = 0 => (last.result = "Ok" /\ Created)

\* C6 amended: initialize for a pool address (derived from the mint pair and
\* the address tree sent with the instruction) that is not committed creates
\* the zero pool, unpaused and with the fee given; initialize for an address
\* that is committed fails, with AlreadyExists when no oracle call failed, and
\* leaves the existing pool unchanged; every committed pool sits at the
\* address of its own mint pair.
C6_OnePoolPerAddress ==
    /\ \A a \in DOMAIN pools : a[2] = pools[a].mint_a /\ a[3] = pools[a].mint_b
    /\ last.op = "initialize_pool" =>
        IF last.existed
        THEN /\ last.result # "Ok"
             /\ last.fault = 0 => last.result = "AlreadyExists"
             /\ Untouched
        ELSE last.fault = 0 =>
                (last.result = "Ok" /\ Created /\ version[last.address] = 1)

\* initialize_pool was sent for a committed address and failed.
C6_Witness ==
    /\ last.op = "initialize_pool"
    /\ last.existed
    /\ last.result = "AlreadyExists"

----------------------------------------------------------------------------
(* C7 *)

\* C7: every committed pool stores as pool_authority the identity derived from
\* the seed "pool_authority" and its own mint_a and mint_b, and the check of
\* swap_exact_in never fails on a committed pool.
C7_PoolAuthorityDerived ==
    /\ \A a \in DOMAIN pools :
          pools[a].pool_authority
              = << "pool_authority", pools[a].mint_a, pools[a].mint_b >>
    /\ (last.op = "swap_exact_in" /\ last.forgery = "none")
           => last.result # "IntegrityMismatch"

\* A swap passed the check on a pool that was mutated since its creation.
C7_Witness ==
    /\ last.op = "swap_exact_in"
    /\ last.forgery = "none"
    /\ last.result = "Ok"
    /\ last.cur >= 2

----------------------------------------------------------------------------
(* C8 *)

\* C8: no step changes mint_a, mint_b, authority, pool_authority or fee_bps of
\* a committed pool, and no step removes a committed pool.
C8_ConfigImmutable ==
    [][\A a \in DOMAIN pools :
          /\ a \in DOMAIN pools'
          /\ pools'[a].mint_a = pools[a].mint_a
          /\ pools'[a].mint_b = pools[a].mint_b
          /\ pools'[a].authority = pools[a].authority
          /\ pools'[a].pool_authority = pools[a].pool_authority
          /\ pools'[a].fee_bps = pools[a].fee_bps]_vars

\* A swap committed a change of the reserves.
C8_Witness ==
    /\ CommittedSwap
    /\ Post.reserve_a # last.pre.reserve_a
    /\ Post.reserve_b # last.pre.reserve_b

----------------------------------------------------------------------------
(* C9 *)

\* C9: a mutating instruction commits only against the version it was
\* prepared for, and the commit makes the next version; an instruction
\* prepared for a version that has been replaced does not commit and changes
\* nothing, and when none of its own checks and oracle calls failed its error
\* is StaleProof.
C9_OneCommitPerVersion ==
    last.op \in Mutating =>
        /\ last.result = "Ok" =>
              (last.ver = last.cur /\ version[last.address] = last.cur + 1)
        /\ last.ver # last.cur =>
              /\ last.result # "Ok"
              /\ Untouched
              /\ (last.result \notin GuardErrors /\ last.fault = 0)
                    => last.result = "StaleProof"

\* Of two instructions prepared for the same version one committed, and the
\* other then failed with StaleProof.
C9_Witness ==
    /\ last.op \in Mutating
    /\ last.forgery = "none"
    /\ last.cur = last.ver + 1
    /\ last.result = "StaleProof"

----------------------------------------------------------------------------
(* C10 *)

\* C10: an instruction one of whose oracle calls fails ends with
\* ArithmeticFault and leaves the committed pool as it was.
C10_FaultCommitsNothing ==
    last.fault # 0 => (last.result = "ArithmeticFault" /\ Untouched)

\* add_liquidity failed at its last oracle call, after reserve_a was computed.
C10_Witness ==
    /\ last.op = "add_liquidity"
    /\ last.fault = Len(LiquidityOracleCalls)
    /\ last.result = "ArithmeticFault"

----------------------------------------------------------------------------
(* C11 *)

\* The cross-program calls the processed swap issued.
SwapCalls ==
    swap_exact_in_calls(Seen, last.amount_1, last.amount_2, last.fee_amount,
                        last.a_to_b, last.fault)

\* C11 as stated: a swap that committed has issued, before the commit, the
\* transfer of amountIn and then the transfer of amountOut.
C11_TransfersBeforeCommit ==
    CommittedSwap =>
        LET calls == SwapCalls
        IN  \E i, j, k \in 1 .. Len(calls) :
                /\ i < j /\ j < k
                /\ calls[i] = "transfer_in"
                /\ calls[j] = "transfer_out"
                /\ calls[k] = "light_system_invoke"

\* The calls a swap makes to the oracle and to the Light system program.
OracleAndCommit ==
    {SwapOracleCalls[n] : n \in 1 .. Len(SwapOracleCalls)} \cup {"light_system_invoke"}

\* C11 amended: a swap that committed has issued exactly the oracle calls of
\* the swap computation and then the state commit; no swap issues a token
\* transfer, and the commit is issued exactly when the handler's checks and
\* oracle calls all passed.
C11_NoTransferInSwap ==
    last.op = "swap_exact_in" =>
        LET calls == SwapCalls
        IN  /\ \A i \in 1 .. Len(calls) : calls[i] \in OracleAndCommit
            /\ CommittedSwap => calls = SwapOracleCalls \o << "light_system_invoke" >>
            /\ (calls # << >> /\ calls[Len(calls)] = "light_system_invoke")
                  <=> last.result \in {"Ok", "StaleProof"}
            /\ \A i \in 1 .. (Len(calls) - 1) : calls[i] # "light_system_invoke"

\* A swap committed a trade: the reserves moved and no token did.
C11_Witness ==
    /\ CommittedSwap
    /\ PostIn # PreIn
    /\ PostOut # PreOut
    /\ Len(SwapCalls) = Len(SwapOracleCalls) + 1

----------------------------------------------------------------------------
(* C12 *)

\* C12 as stated: whenever an instruction can be processed for a committed,
\* unpaused pool, some step of the program takes that pool to the paused state.
C12_PauseTransitionExists ==
    (/\ clock <= MaxClock
     /\ last = NoInstruction
     /\ snap.taken
     /\ ~pools[snap.addr].is_paused)
        => ENABLED (Next /\ pools'[snap.addr].is_paused)

\* C12 amended: the lifecycle is Uninitialized -> Active{paused=false}; every
\* committed pool is unpaused, whatever instructions were processed, and an
\* instruction commits only pool data that is unpaused.
C12_NeverPaused ==
    /\ \A a \in DOMAIN pools : ~pools[a].is_paused
    /\ (last.op \in Mutating /\ last.result = "Ok") => ~Seen.is_paused

\* A pool was mutated twice after its creation and is still unpaused.
C12_Witness ==
    /\ last.op \in Mutating
    /\ last.result = "Ok"
    /\ version[last.address] = 3
    /\ ~Post.is_paused

----------------------------------------------------------------------------
(* C13 *)

\* The processed swap committed with one of its two gates failed.
GatedSwap == CommittedSwap /\ ~(LiquidityGate /\ KGate)

SameValues(p, q) ==
    /\ p.reserve_a = q.reserve_a
    /\ p.reserve_b = q.reserve_b
    /\ p.protocol_fee_a = q.protocol_fee_a
    /\ p.protocol_fee_b = q.protocol_fee_b

\* The pool holds the values the processed swap read, and so it does after the
\* processed swap is submitted again, n times over, each time against the pool
\* the previous submission left and one clock tick later; every submission
\* succeeds as an instruction and stamps its clock.
RECURSIVE StaysGated(_, _, _)
StaysGated(pool, n, now) ==
    /\ SameValues(pool, last.pre)
    /\ n > 0 =>
          LET r == swap_exact_in(pool, last.amount_1, last.amount_2,
                                 last.fee_amount, last.a_to_b, 0, now)
          IN  /\ r.result = "Ok"
              /\ r.account.last_update_ts = now
              /\ StaysGated(r.account, n - 1, now + 1)

\* C13: after a swap that was gated to zero effect, the same swap submitted
\* again against the resulting pool, any number of times, succeeds as an
\* instruction and leaves reserves and protocol fees at their values before
\* the first submission.
C13_GatedSwapIdempotent ==
    GatedSwap => StaysGated(Post, MaxRepeat, clock)

\* A swap asking for more than the output reserve was gated and committed.
C13_Witness ==
    /\ GatedSwap
    /\ ~LiquidityGate
    /\ last.amount_1 > 0
    /\ PreIn > 0

----------------------------------------------------------------------------
(* C14 *)

\* The pool with every encrypted value replaced by v.
Recast(pool, v) ==
    [pool EXCEPT !.reserve_a = v, !.reserve_b = v,
                 !.protocol_fee_a = v, !.protocol_fee_b = v]

\* C14: the processed swap issued the calls, and ended the way, of the swap
\* that differs from it in nothing but the encrypted values (every reserve,
\* fee and amount replaced by 0, or by the largest value): the handler result,
\* the sequence of calls and the outcome of the instruction are the same, and
\* the outcome is the one the plaintext inputs alone determine.
C14_SwapOblivious ==
    last.op = "swap_exact_in" =>
        LET this == swap_exact_in(Seen, last.amount_1, last.amount_2,
                                  last.fee_amount, last.a_to_b, last.fault,
                                  clock - 1)
            calls == SwapCalls
        IN  \A v \in {0, Modulus - 1} :
                LET other == swap_exact_in(Recast(Seen, v), v, v, v, last.a_to_b,
                                           last.fault, clock - 1)
                IN  /\ this.result = other.result
                    /\ calls = swap_exact_in_calls(Recast(Seen, v), v, v, v,
                                                   last.a_to_b, last.fault)
                    /\ last.result =
                          Outcome(other.result,
                                  last.forgery = "none" /\ last.ver = last.cur,
                                  "StaleProof")

\* A swap that passed the liquidity gate and failed the k gate issued every
\* oracle call and the commit.
C14_Witness ==
    /\ CommittedSwap
    /\ last.amount_2 > 0
    /\ LiquidityGate
    /\ ~KGate
    /\ SwapCalls = SwapOracleCalls \o << "light_system_invoke" >>

----------------------------------------------------------------------------
(* C15 *)

\* The processed instruction is add_liquidity or remove_liquidity, sent by the
\* recorded authority with the pool it read, unpaused, and a current proof,
\* and none of its oracle calls failed.
LiquidityByAuthority ==
    /\ last.op \in {"add_liquidity", "remove_liquidity"}
    /\ last.forgery = "none"
    /\ last.caller = Seen.authority
    /\ last.fault = 0
    /\ last.ver = last.cur

\* C15: add_liquidity by the authority on an unpaused pool commits, whatever
\* the amounts and the reserves, reserve_a + amount_a and reserve_b + amount_b,
\* and remove_liquidity commits reserve_a - amount_a and reserve_b - amount_b
\* (sums and differences of the encrypted type); both leave the protocol fees
\* and every other field but last_update_ts as they were.
C15_LiquidityUngated ==
    /\ LiquidityByAuthority => last.result = "Ok"
    /\ (last.op = "add_liquidity" /\ last.result = "Ok") =>
          Post = [last.pre EXCEPT !.reserve_a = e_add(@, last.amount_1),
                                  !.reserve_b = e_add(@, last.amount_2),
                                  !.last_update_ts = clock - 1]
    /\ (last.op = "remove_liquidity" /\ last.result = "Ok") =>
          Post = [last.pre EXCEPT !.reserve_a = e_sub(@, last.amount_1),
                                  !.reserve_b = e_sub(@, last.amount_2),
                                  !.last_update_ts = clock - 1]

\* add_liquidity committed a one-sided deposit to a pool that held liquidity.
C15_Witness ==
    /\ last.op = "add_liquidity"
    /\ last.result = "Ok"
    /\ last.amount_1 > 0
    /\ last.amount_2 = 0
    /\ last.pre.reserve_a > 0
    /\ last.pre.reserve_b > 0

----------------------------------------------------------------------------
(* C16 *)

\* C16: remove_liquidity by the authority on an unpaused pool does not fail
\* when an amount exceeds its reserve; it commits the difference wrapped to
\* the width of the encrypted type, reserve - amount + 2^Width, which is
\* larger than the reserve it read.
C16_RemoveUnderflowWraps ==
    /\ (LiquidityByAuthority /\ last.op = "remove_liquidity") => last.result = "Ok"
    /\ (last.op = "remove_liquidity" /\ last.result = "Ok") =>
          /\ last.amount_1 > last.pre.reserve_a =>
                /\ Post.reserve_a = last.pre.reserve_a - last.amount_1 + Modulus
                /\ Post.reserve_a > last.pre.reserve_a
          /\ last.amount_2 > last.pre.reserve_b =>
                /\ Post.reserve_b = last.pre.reserve_b - last.amount_2 + Modulus
                /\ Post.reserve_b > last.pre.reserve_b

\* remove_liquidity on a pool that never received liquidity committed the
\* largest reserve there is.
C16_Witness ==
    /\ last.op = "remove_liquidity"
    /\ last.result = "Ok"
    /\ last.cur = 1
    /\ last.pre.reserve_a = 0
    /\ last.amount_1 = 1
    /\ Post.reserve_a = Modulus - 1

----------------------------------------------------------------------------
(* C17 *)

\* C17: on the reserves a committed swap read, and for every amount_out a
\* client can send (with the amount_in of the swap, and with the largest
\* amount_in), the subtrahend of each of the two
\* subtractions of compute_swap_updates is at most reserve_out, so the new
\* output reserve is the plain difference; the committed output reserve is the
\* one the swap read less the subtrahend of its final subtraction.
C17_NoUnderflowInSwap ==
    CommittedSwap =>
        /\ \A i \in {last.amount_1, Modulus - 1}, o \in EValues :
              LET u == compute_swap_updates(PreIn, PreOut, PreFeeIn, i, o,
                                            last.fee_amount, 0)
              IN  /\ Len(u.subtrahends) = 2
                  /\ u.subtrahends[1] <= PreOut
                  /\ u.subtrahends[2] <= PreOut
                  /\ u.new_reserve_out = PreOut - u.subtrahends[2]
        /\ PostOut =
              PreOut - compute_swap_updates(PreIn, PreOut, PreFeeIn, last.amount_1,
                                            last.amount_2, last.fee_amount,
                                            0).subtrahends[2]

\* A swap asked for more than the output reserve held, and committed.
C17_Witness ==
    /\ CommittedSwap
    /\ last.amount_2 > PreOut
    /\ PostOut = PreOut

----------------------------------------------------------------------------
(* C18 *)

\* C18: a committed swap leaves the input reserve at least, and the output
\* reserve at most, what it read: no wrapped sum or difference is committed.
C18_NoWrappedCommit ==
    CommittedSwap => (PostIn >= PreIn /\ PostOut <= PreOut)

----------------------------------------------------------------------------
(* C19 *)

\* The pool with side a and side b exchanged.
Mirror(p) ==
    [p EXCEPT !.reserve_a = p.reserve_b, !.reserve_b = p.reserve_a,
              !.protocol_fee_a = p.protocol_fee_b,
              !.protocol_fee_b = p.protocol_fee_a]

\* C19: the pool a swap committed is the mirror image of the pool the swap of
\* the other direction, with the same amounts, makes of the mirror image of
\* the pool it read; the swap leaves the protocol fee of its output side as
\* it was, and that fee has no influence on what it writes.
C19_DirectionSymmetry ==
    CommittedSwap =>
        LET other == swap_exact_in(Mirror(last.pre), last.amount_1, last.amount_2,
                                   last.fee_amount, ~last.a_to_b, 0, clock - 1)
            bumped == IF last.a_to_b
                      THEN [last.pre EXCEPT !.protocol_fee_b = e_add(@, 1)]
                      ELSE [last.pre EXCEPT !.protocol_fee_a = e_add(@, 1)]
            again == swap_exact_in(bumped, last.amount_1, last.amount_2,
                                   last.fee_amount, last.a_to_b, 0, clock - 1)
        IN  /\ other.result = "Ok"
            /\ Post = Mirror(other.account)
            /\ PostFeeOut = PreFeeOut
            /\ again.account =
                  IF last.a_to_b
                  THEN [Post EXCEPT !.protocol_fee_b = e_add(@, 1)]
                  ELSE [Post EXCEPT !.protocol_fee_a = e_add(@, 1)]

\* A swap from b to a with a fee committed a trade on a lopsided pool.
C19_Witness ==
    /\ CommittedSwap
    /\ ~last.a_to_b
    /\ last.fee_amount > 0
    /\ last.pre.reserve_a # last.pre.reserve_b
    /\ PostIn # PreIn
    /\ PostFeeIn # PreFeeIn

----------------------------------------------------------------------------
(* C20 *)

\* C20: a swap one of whose gates failed commits all the same: the pool gets
\* its next version, equal to the one the swap read but for last_update_ts,
\* which is the clock of the swap, and the proof the swap was sent with no
\* longer verifies; every instruction that committed left its clock in
\* last_update_ts, and an instruction that failed left the committed pool,
\* last_update_ts included, as it was.
C20_GatedSwapCommits ==
    /\ GatedSwap =>
          /\ version[last.address] = last.cur + 1
          /\ Post = [last.pre EXCEPT !.last_update_ts = clock - 1]
          /\ ~ProofValid(last.address, Seen, last.ver)
    /\ last.op # "none" =>
          IF last.result = "Ok"
          THEN Post.last_update_ts = clock - 1
          ELSE Untouched /\ Post.last_update_ts = last.pre.last_update_ts

\* A gated swap committed a version that differs from the one it read in
\* last_update_ts alone, and the client's proof is now one version behind.
C20_Witness ==
    /\ GatedSwap
    /\ SameValues(Post, last.pre)
    /\ Post.last_update_ts > last.pre.last_update_ts
    /\ snap.ver + 1 = version[snap.addr]

====
